---- MODULE Spec2Model ----
(***************************************************************************)
(* Model of src/main.py: fetch_campaign_ids_and_tags (the cursor-paginated *)
(* fetch with 429 back-off) and main (flatten, full-replace load).         *)
(*                                                                         *)
(* Python values are represented as follows.                               *)
(*   - a string-or-None field (page_cursor, tag_name, the page[cursor]     *)
(*     request parameter) is a string, None being the reserved value None; *)
(*   - an optional container (a JSON key that may be missing, a header     *)
(*     that may be missing, a variable not yet bound) is a sequence of     *)
(*     length 0 (Absent) or 1 (Some(x));                                   *)
(*   - a list is a sequence, a dict a record.                              *)
(* The upstream is assumed to respect its interface: a Retry-After header, *)
(* when present, is a decimal number of seconds, and a 200 body is a JSON  *)
(* document whose campaigns carry id and attributes.name.                  *)
(***************************************************************************)
EXTENDS Integers, Sequences, FiniteSets, TLC

\* ------------------------------------------------------------------ bounds
MaxLimit    == 2   \* limit ranges over 1..MaxLimit
MaxRequests == 4   \* requests issued by one call of the fetch
MaxRuns     == 2   \* runs of main in the repeated-run specification

\* --------------------------------------------------------------- constants
DefaultRetryAfter == 60

\* ---------------------------------------------------------- Python values
None    == "<None>"
Absent  == <<>>
Some(x) == <<x>>

\* bool(s) for a string-or-None value
Truthy(s) == s # None /\ s # ""

\* d.get(key, default) for an optional container
GetOr(opt, default) == IF opt = Absent THEN default ELSE opt[1]

Last(s) == s[Len(s)]

\* ------------------------------------------------- the upstream's catalogue
\* campaigns as the API returns them: id, attributes.name, and the tag
\* references of relationships.tags.data (the block may be missing)
CampA == [id |-> "A", name |-> "Alpha", tags |-> Some(<<"t1", "t2">>)]
CampB == [id |-> "B", name |-> "Beta",  tags |-> Absent]
CampC == [id |-> "C", name |-> "Gamma", tags |-> Some(<<"t2">>)]

Entity(t, i, n) == [type |-> t, id |-> i, name |-> n]

\* every referenced tag is side-loaded
IncFull  == Some(<<Entity("tag", "t1", "VIP"), Entity("tag", "t2", "Sale")>>)
\* t1 is shadowed by an entity of another type and side-loaded twice;
\* t2 is not side-loaded at all
IncOdd   == Some(<<Entity("campaign-message", "t1", "Msg"),
                   Entity("tag", "t1", "VIP"),
                   Entity("tag", "t1", "Dup")>>)

\* next links, as the list of key=value pairs of the URL's query string
LinkBlank == Some(<< <<"filter", "x">>, <<"page[cursor]", "">> >>)
LinkC1    == Some(<< <<"filter", "x">>, <<"page[cursor]", "c1">> >>)
LinkC2    == Some(<< <<"page[cursor]", "">>, <<"page[cursor]", "c2">>,
                     <<"page[cursor]", "c1">> >>)
Links     == {Absent, LinkBlank, LinkC1, LinkC2}

Contents ==
    { [data |-> Absent,                      included |-> Absent],
      [data |-> Some(<<>>),                  included |-> Some(<<>>)],
      [data |-> Some(<<CampA, CampB>>),      included |-> IncFull],
      [data |-> Some(<<CampB, CampA>>),      included |-> IncOdd],
      [data |-> Some(<<CampC>>),             included |-> Absent] }

Pages ==
    { [data |-> c.data, included |-> c.included, next |-> l] :
        c \in Contents, l \in Links }

\* the upstream of the repeated-run specification
RepeatPages ==
    { [data |-> Some(<<CampA, CampB>>), included |-> IncFull, next |-> LinkC1],
      [data |-> Some(<<CampC>>),        included |-> IncOdd,  next |-> Absent],
      [data |-> Some(<<CampB>>),        included |-> Absent,  next |-> LinkC1],
      [data |-> Some(<<>>),             included |-> Absent,  next |-> Absent] }

\* the upstream of the specification of unending runs: it can serve pages
\* without campaigns whose next links lead to one another
LivePages ==
    { [data |-> Some(<<>>),             included |-> Absent,  next |-> LinkC1],
      [data |-> Absent,                 included |-> Absent,  next |-> LinkC2],
      [data |-> Some(<<CampA, CampB>>), included |-> IncFull, next |-> LinkC1],
      [data |-> Some(<<CampC>>),        included |-> IncOdd,  next |-> LinkC2],
      [data |-> Some(<<CampC>>),        included |-> IncOdd,  next |-> Absent],
      [data |-> Some(<<>>),             included |-> Absent,  next |-> LinkBlank] }

EmptyPage == [data |-> Absent, included |-> Absent, next |-> Absent]

\* Retry-After header texts, as sequences of characters
RetryAfterTexts == { <<"3", "0">> }
ErrorStatuses   == {204, 401}

Responses ==
    { [status |-> 200, retry_after |-> Absent, body |-> p] : p \in Pages }
    \cup { [status |-> 429, retry_after |-> h, body |-> EmptyPage] :
             h \in {Absent} \cup { Some(t) : t \in RetryAfterTexts } }
    \cup { [status |-> s, retry_after |-> Absent, body |-> EmptyPage] :
             s \in ErrorStatuses }

\* rows the table may hold before the first run
StaleRow == [campaign_id |-> "Z", campaign_name |-> "Old",
             tag_id |-> "t9", tag_name |-> "Gone"]
PriorTables == { <<StaleRow>> }

VARIABLES
    pc,                     \* position of the run
    runsLeft,               \* times the program will still be started
    catalogue,              \* the pages the upstream may serve
    limit,                  \* the limit argument of the fetch
    campaign_ids_and_tags,  \* the accumulator
    has_next,
    page_cursor,
    idx,                    \* position of the for loop in data['data']
    requests,               \* page[cursor] parameter of each request of this call
    responses,              \* the response to each request of this call
    sleeps,                 \* argument of each time.sleep of this call
    origin,                 \* for each accumulated record: response and position
    campaign_list,          \* main's campaign_list, Absent until bound
    all_campaign_tags,      \* main's flattened rows
    table,                  \* rows of the warehouse table
    upstream,               \* page served for each cursor already asked for
    stable,                 \* the upstream has not changed since this run started
    prev,                   \* the table the last completed run left, Absent once
                            \* the upstream has changed since that run started
    table0,                 \* the table when the current run started
    loaded,                 \* the batch this run handed to the load job, if any
    history                 \* requests, responses and sleeps keep every entry
                            \* (TRUE) or only the latest one (FALSE)

vars == << pc, runsLeft, catalogue, limit, campaign_ids_and_tags, has_next, page_cursor, idx,
           requests, responses, sleeps, origin, campaign_list,
           all_campaign_tags, table, upstream, stable, prev,
           table0, loaded, history >>

fetchVars == << campaign_ids_and_tags, has_next, page_cursor, idx,
                requests, responses, sleeps, origin >>
mainVars  == << campaign_list, all_campaign_tags, table, loaded >>
envVars   == << upstream, stable, prev >>
runVars   == << runsLeft, catalogue, limit, table0, history >>

response == Last(responses)

\* ------------------------------------------------------------- conversions
Digits == <<"0", "1", "2", "3", "4", "5", "6", "7", "8", "9">>
DigitValue(ch) == (CHOOSE d \in 1..10 : Digits[d] = ch) - 1

RECURSIVE ParseInt(_)
\* int(text) for a decimal text
ParseInt(text) ==
    IF Len(text) = 0 THEN 0
    ELSE 10 * ParseInt(SubSeq(text, 1, Len(text) - 1)) + DigitValue(Last(text))

RetryAfterAlways60(headers) == DefaultRetryAfter

\* int(response.headers.get('Retry-After', 60))
RetryAfter(headers) ==
    IF headers = Absent THEN DefaultRetryAfter ELSE ParseInt(headers[1])

RECURSIVE FirstValueTakesLast(_, _)
FirstValueTakesLast(query, key) ==
    IF query = <<>> THEN None
    ELSE IF Last(query)[1] = key /\ Last(query)[2] # "" THEN Last(query)[2]
    ELSE FirstValueTakesLast(SubSeq(query, 1, Len(query) - 1), key)

RECURSIVE FirstValue(_, _)
\* parse_qs(query).get(key, [None])[0]: the first non-blank value of key
\* (parse_qs drops blank values), None when there is none
FirstValue(query, key) ==
    IF query = <<>> THEN None
    ELSE IF query[1][1] = key /\ query[1][2] # "" THEN query[1][2]
    ELSE FirstValue(Tail(query), key)

\* lines 100-105
NextCursor(body) ==
    IF body.next = Absent THEN None
    ELSE FirstValue(body.next[1], "page[cursor]")

\* ------------------------------------------------------ building a record
RECURSIVE ResolveTagNameAnyType(_, _)
ResolveTagNameAnyType(included, tag_id) ==
    IF included = <<>> THEN None
    ELSE IF included[1].id = tag_id THEN included[1].name
    ELSE ResolveTagNameAnyType(Tail(included), tag_id)

RECURSIVE ResolveTagName(_, _)
\* lines 80-82: next((e['attributes']['name'] for e in data.get('included', [])
\*                    if e['type'] == 'tag' and e['id'] == tag_id), None)
ResolveTagName(included, tag_id) ==
    IF included = <<>> THEN None
    ELSE IF included[1].type = "tag" /\ included[1].id = tag_id
         THEN included[1].name
    ELSE ResolveTagName(Tail(included), tag_id)

\* line 75: campaign.get('relationships', {}).get('tags', {}).get('data', [])
TagsData(campaign) == GetOr(campaign.tags, <<>>)

BuildTagsSkipUnmatched(tags_data, included) ==
    LET all == [j \in 1..Len(tags_data) |->
                  [tag_id   |-> tags_data[j],
                   tag_name |-> ResolveTagName(included, tags_data[j])]]
    IN  SelectSeq(all, LAMBDA t : t.tag_name # None)

\* lines 76-86: one entry per reference, in order
BuildTags(tags_data, included) ==
    [j \in 1..Len(tags_data) |->
       [tag_id   |-> tags_data[j],
        tag_name |-> ResolveTagName(included, tags_data[j])]]

\* lines 72-92: the record appended for one campaign of a response body
BuildRecord(campaign, body) ==
    [campaign_id   |-> campaign.id,
     campaign_name |-> campaign.name,
     tags          |-> BuildTags(TagsData(campaign), GetOr(body.included, <<>>))]

\* ------------------------------------------------------------ loop tests
WhileCondNoLimit(acc, hn, lim) == hn

WhileCondOffByOne(acc, hn, lim) == hn /\ Len(acc) + 1 < lim

\* line 49: has_next and len(campaign_ids_and_tags) < limit
WhileCond(acc, hn, lim) == hn /\ Len(acc) < lim

BreakCondNever(acc, lim) == FALSE

BreakCondEarly(acc, lim) == Len(acc) + 1 >= lim

\* line 94: len(campaign_ids_and_tags) >= limit
BreakCond(acc, lim) == Len(acc) >= lim

\* lines 56-57: the page[cursor] parameter of the request, None when not sent
CursorParam(cursor) == IF Truthy(cursor) THEN cursor ELSE None

\* ------------------------------------------------------------- flattening
RECURSIVE TagRows(_, _)
\* lines 123-129: the rows of one campaign
TagRows(campaign, tags) ==
    IF tags = <<>> THEN <<>>
    ELSE << [campaign_id   |-> campaign.campaign_id,
             campaign_name |-> campaign.campaign_name,
             tag_id        |-> tags[1].tag_id,
             tag_name      |-> tags[1].tag_name] >>
         \o TagRows(campaign, Tail(tags))

RECURSIVE FlattenLeftJoin(_)
FlattenLeftJoin(list) ==
    IF list = <<>> THEN <<>>
    ELSE (IF list[1].tags = <<>>
          THEN << [campaign_id   |-> list[1].campaign_id,
                   campaign_name |-> list[1].campaign_name,
                   tag_id        |-> None,
                   tag_name      |-> None] >>
          ELSE TagRows(list[1], list[1].tags))
         \o FlattenLeftJoin(Tail(list))

RECURSIVE FlattenPrepend(_)
FlattenPrepend(list) ==
    IF list = <<>> THEN <<>>
    ELSE FlattenPrepend(Tail(list)) \o TagRows(list[1], list[1].tags)

RECURSIVE Flatten(_)
\* lines 118-129: for campaign in campaign_list: for tag in tags: append
Flatten(list) ==
    IF list = <<>> THEN <<>>
    ELSE TagRows(list[1], list[1].tags) \o Flatten(Tail(list))

\* -------------------------------------------------------------- the load
RowColumns == <<"campaign_id", "campaign_name", "tag_id", "tag_name">>

\* lines 133-138: the frame of the rows, whose columns are the keys of the
\* row dicts; without rows, an empty frame with the four columns
DataFrame(rows) == [columns |-> RowColumns, rows |-> rows]

LoadTableAppend(old, rows) == old \o rows

\* lines 133-155: the DataFrame keeps the rows as they are (an empty frame has
\* the four columns and no row); WRITE_TRUNCATE replaces the table's rows
LoadTable(old, rows) == rows

\* ---------------------------------------------------------- initial state
\* what does not depend on the inputs: nothing fetched, nothing started
InitLocals ==
    /\ pc = "idle"
    /\ campaign_ids_and_tags = <<>>
    /\ has_next = TRUE
    /\ page_cursor = None
    /\ idx = 0
    /\ requests = <<>>
    /\ responses = <<>>
    /\ sleeps = <<>>
    /\ origin = <<>>
    /\ campaign_list = Absent
    /\ all_campaign_tags = <<>>
    /\ table \in PriorTables
    /\ upstream = <<>>
    /\ stable = TRUE
    /\ prev = Absent
    /\ table0 = table
    /\ loaded = Absent

\* one run of the program against an upstream that may serve any page
Init ==
    /\ InitLocals
    /\ runsLeft = 1
    /\ catalogue = Pages
    /\ limit \in 1..MaxLimit
    /\ history = TRUE

\* the program is run up to MaxRuns times against a small upstream
InitRepeat ==
    /\ InitLocals
    /\ runsLeft \in 1..MaxRuns
    /\ catalogue = RepeatPages
    /\ limit \in 1..MaxLimit
    /\ history = TRUE

\* one run that may go on for ever: only the latest request, response and
\* sleep are kept
InitLive ==
    /\ InitLocals
    /\ runsLeft = 1
    /\ catalogue = LivePages
    /\ limit \in 1..MaxLimit
    /\ history = FALSE

\* ------------------------------------------------------------ the actions
\* The program is started (again): lines 111-114 and 38-47.
StartRun ==
    /\ pc \in {"idle", "finished", "failed"}
    /\ runsLeft > 0
    /\ runsLeft' = runsLeft - 1
    /\ stable' = TRUE
    /\ prev' = IF pc = "finished"
               THEN (IF stable THEN Some(table) ELSE Absent)
               ELSE prev
    /\ campaign_ids_and_tags' = <<>>
    /\ has_next' = TRUE
    /\ page_cursor' = None
    /\ idx' = 0
    /\ requests' = <<>>
    /\ responses' = <<>>
    /\ sleeps' = <<>>
    /\ origin' = <<>>
    /\ campaign_list' = Absent
    /\ all_campaign_tags' = <<>>
    /\ table0' = table
    /\ loaded' = Absent
    /\ pc' = "while"
    /\ UNCHANGED << catalogue, limit, table, upstream, history >>

\* line 49, the test holds: the loop body is entered
LoopEnter ==
    /\ pc = "while"
    /\ WhileCond(campaign_ids_and_tags, has_next, limit)
    /\ pc' = "get"
    /\ UNCHANGED << fetchVars, mainVars, envVars, runVars >>

\* line 49, the test fails: line 109 returns the accumulator to line 114
Return ==
    /\ pc = "while"
    /\ ~WhileCond(campaign_ids_and_tags, has_next, limit)
    /\ campaign_list' = Some(campaign_ids_and_tags)
    /\ pc' = "flatten"
    /\ UNCHANGED << fetchVars, all_campaign_tags, table, loaded, envVars, runVars >>

\* the page the upstream serves for a cursor: the one it served before, any
\* page when the cursor is asked for the first time (since the last change)
Served(cursor) ==
    IF cursor \in DOMAIN upstream THEN {upstream[cursor]} ELSE catalogue

Remember(cursor, page) ==
    [c \in DOMAIN upstream \cup {cursor} |->
        IF c = cursor THEN page ELSE upstream[c]]

\* an entry is added to a history variable
Log(log, entry) == IF history THEN Append(log, entry) ELSE <<entry>>

\* lines 51-59: one GET, answered 200 with a page, 429, or another status
Get ==
    /\ pc = "get"
    /\ history => Len(requests) < MaxRequests
    /\ LET param == CursorParam(page_cursor) IN
       /\ requests' = Log(requests, param)
       /\ \/ \E page \in Served(param) :
               /\ responses' = Log(responses,
                     [status |-> 200, retry_after |-> Absent, body |-> page])
               /\ upstream' = Remember(param, page)
          \/ \E r \in Responses :
               /\ r.status # 200
               /\ responses' = Log(responses, r)
               /\ upstream' = upstream
    /\ pc' = "status"
    /\ UNCHANGED << campaign_ids_and_tags, has_next, page_cursor, idx, sleeps,
                    origin, mainVars, stable, prev, runVars >>

HandleRateLimitResetCursor ==
    /\ pc = "status"
    /\ response.status = 429
    /\ sleeps' = Log(sleeps, RetryAfter(response.retry_after))
    /\ page_cursor' = None
    /\ pc' = "while"
    /\ UNCHANGED << campaign_ids_and_tags, has_next, idx, requests,
                    responses, origin, mainVars, envVars, runVars >>

HandleRateLimitGiveUp ==
    /\ pc = "status"
    /\ response.status = 429
    /\ sleeps' = Log(sleeps, RetryAfter(response.retry_after))
    /\ pc' = IF Len(sleeps) >= 2 THEN "failed" ELSE "while"
    /\ UNCHANGED << campaign_ids_and_tags, has_next, page_cursor, idx, requests,
                    responses, origin, mainVars, envVars, runVars >>

\* lines 61-65: 429, sleep and continue
HandleRateLimit ==
    /\ pc = "status"
    /\ response.status = 429
    /\ sleeps' = Log(sleeps, RetryAfter(response.retry_after))
    /\ pc' = "while"
    /\ UNCHANGED << campaign_ids_and_tags, has_next, page_cursor, idx, requests,
                    responses, origin, mainVars, envVars, runVars >>

RaiseErrorAsEndOfPages ==
    /\ pc = "status"
    /\ response.status # 429
    /\ response.status # 200
    /\ has_next' = FALSE
    /\ pc' = "while"
    /\ UNCHANGED << campaign_ids_and_tags, page_cursor, idx, requests,
                    responses, sleeps, origin, mainVars, envVars, runVars >>

RaiseErrorAfterPartialLoad ==
    /\ pc = "status"
    /\ response.status # 429
    /\ response.status # 200
    /\ loaded' = Some(DataFrame(Flatten(campaign_ids_and_tags)))
    /\ table' = LoadTable(table, Flatten(campaign_ids_and_tags))
    /\ pc' = "failed"
    /\ UNCHANGED << fetchVars, campaign_list, all_campaign_tags, envVars, runVars >>

\* lines 66-67: the exception leaves fetch and main
RaiseError ==
    /\ pc = "status"
    /\ response.status # 429
    /\ response.status # 200
    /\ pc' = "failed"
    /\ UNCHANGED << fetchVars, mainVars, envVars, runVars >>

ReadBodyRequireData ==
    /\ pc = "status"
    /\ response.status = 200
    /\ IF response.body.data = Absent
       THEN pc' = "failed" /\ idx' = 0
       ELSE IF response.body.data[1] # <<>>
       THEN pc' = "for" /\ idx' = 1
       ELSE pc' = "paginate" /\ idx' = 0
    /\ UNCHANGED << campaign_ids_and_tags, has_next, page_cursor, requests,
                    responses, sleeps, origin, mainVars, envVars, runVars >>

\* lines 69-71 and 96-97: the body is read; the for loop starts when the body
\* has campaigns, and is skipped otherwise
ReadBody ==
    /\ pc = "status"
    /\ response.status = 200
    /\ IF GetOr(response.body.data, <<>>) # <<>>
       THEN pc' = "for" /\ idx' = 1
       ELSE pc' = "paginate" /\ idx' = 0
    /\ UNCHANGED << campaign_ids_and_tags, has_next, page_cursor, requests,
                    responses, sleeps, origin, mainVars, envVars, runVars >>

\* lines 71-95: one iteration of the for loop
ProcessCampaign ==
    /\ pc = "for"
    /\ LET data == response.body.data[1]
           acc  == Append(campaign_ids_and_tags,
                          BuildRecord(data[idx], response.body))
       IN  /\ campaign_ids_and_tags' = acc
           /\ origin' = Append(origin, [r |-> Len(responses), i |-> idx])
           /\ IF BreakCond(acc, limit) \/ idx = Len(data)
              THEN pc' = "paginate" /\ idx' = 0
              ELSE pc' = "for" /\ idx' = idx + 1
    /\ UNCHANGED << has_next, page_cursor, requests, responses, sleeps,
                    mainVars, envVars, runVars >>

PaginateNeverLast ==
    /\ pc = "paginate"
    /\ page_cursor' = NextCursor(response.body)
    /\ has_next' = TRUE
    /\ pc' = "while"
    /\ UNCHANGED << campaign_ids_and_tags, idx, requests, responses, sleeps,
                    origin, mainVars, envVars, runVars >>

\* lines 99-107
Paginate ==
    /\ pc = "paginate"
    /\ page_cursor' = NextCursor(response.body)
    /\ has_next' = Truthy(page_cursor')
    /\ pc' = "while"
    /\ UNCHANGED << campaign_ids_and_tags, idx, requests, responses, sleeps,
                    origin, mainVars, envVars, runVars >>

\* lines 117-131
FlattenRows ==
    /\ pc = "flatten"
    /\ all_campaign_tags' = Flatten(campaign_list[1])
    /\ pc' = "load"
    /\ UNCHANGED << fetchVars, campaign_list, table, loaded, envVars, runVars >>

LoadSkipEmpty ==
    /\ pc = "load"
    /\ IF all_campaign_tags = <<>>
       THEN UNCHANGED << loaded, table >>
       ELSE /\ loaded' = Some(DataFrame(all_campaign_tags))
            /\ table' = LoadTable(table, all_campaign_tags)
    /\ pc' = "finished"
    /\ UNCHANGED << fetchVars, campaign_list, all_campaign_tags, envVars, runVars >>

\* lines 133-157
Load ==
    /\ pc = "load"
    /\ loaded' = Some(DataFrame(all_campaign_tags))
    /\ table' = LoadTable(table, all_campaign_tags)
    /\ pc' = "finished"
    /\ UNCHANGED << fetchVars, campaign_list, all_campaign_tags, envVars, runVars >>

\* the environment: the upstream's campaigns change, so that any cursor may
\* be served another page from now on (a change shows at the next request)
UpstreamChange ==
    /\ pc = "get"
    /\ upstream # <<>>
    /\ upstream' = <<>>
    /\ stable' = FALSE
    /\ prev' = Absent
    /\ UNCHANGED << pc, fetchVars, mainVars, runVars >>

Next ==
    \/ StartRun
    \/ LoopEnter
    \/ Return
    \/ Get
    \/ HandleRateLimit
    \/ RaiseError
    \/ ReadBody
    \/ ProcessCampaign
    \/ Paginate
    \/ FlattenRows
    \/ Load
    \/ UpstreamChange

Spec == Init /\ [][Next]_vars

SpecRepeat == InitRepeat /\ [][Next]_vars

\* the steps of the program itself: it is single-threaded and blocking, so it
\* always takes its next step (a request is always answered, a sleep ends)
ProgramStep ==
    \/ StartRun
    \/ LoopEnter
    \/ Return
    \/ Get
    \/ HandleRateLimit
    \/ RaiseError
    \/ ReadBody
    \/ ProcessCampaign
    \/ Paginate
    \/ FlattenRows
    \/ Load

SpecLive == InitLive /\ [][Next]_vars /\ WF_vars(ProgramStep)

\* ================================================================ claims
Returned == campaign_list # Absent

\* the successful body and the campaign an accumulated record was built from
SourceBody(k)     == responses[origin[k].r].body
SourceCampaign(k) == SourceBody(k).data[1][origin[k].i]

\* C1: the accumulator never holds more than limit records, in any state of
\* the fetch, and neither does the list it returns.
C1_AccWithinLimit ==
    /\ Len(campaign_ids_and_tags) <= limit
    /\ Returned => Len(campaign_list[1]) <= limit

\* the limit is reached in the middle of a page, after a 429 was retried
C1_Witness ==
    /\ pc = "paginate"
    /\ Len(campaign_ids_and_tags) = limit
    /\ Last(origin).i < Len(response.body.data[1])
    /\ \E k \in 1..Len(responses) : responses[k].status = 429

\* C2: once the accumulator has reached limit, no further resource is
\* processed and no further request is issued.
C2_StopAtLimit ==
    [][ Len(campaign_ids_and_tags) >= limit =>
          /\ campaign_ids_and_tags' = campaign_ids_and_tags
          /\ origin' = origin
          /\ requests' = requests ]_vars

\* limit = 1, the first page has two campaigns and a next link with a cursor:
\* the run ends with the first campaign alone and a single request
C2_Witness ==
    /\ pc = "finished"
    /\ limit = 1
    /\ Len(requests) = 1
    /\ response.status = 200
    /\ response.body.next = LinkC1
    /\ response.body.data # Absent
    /\ Len(response.body.data[1]) = 2
    /\ Len(campaign_list[1]) = 1
    /\ campaign_list[1][1].campaign_id = response.body.data[1][1].id

\* C3: a status other than 200 and 429 ends the fetch in failure: no further
\* request, and nothing is returned to the caller, the records of earlier
\* pages included.
C3_ErrorAborts ==
    /\ [][ (pc = "status" /\ response.status \notin {200, 429}) =>
             /\ pc' = "failed"
             /\ requests' = requests
             /\ campaign_list' = Absent ]_vars
    /\ [](pc = "failed" =>
             /\ response.status \notin {200, 429}
             /\ campaign_list = Absent
             /\ all_campaign_tags = <<>>)
    /\ [][ pc = "failed" => requests' = requests /\ campaign_list' = Absent ]_vars

\* the failure comes after a page was fetched and accumulated
C3_Witness ==
    /\ pc = "failed"
    /\ Len(responses) >= 2
    /\ campaign_ids_and_tags # <<>>

\* C4: handling a 429 leaves the cursor and the accumulator unchanged, and
\* the next request carries the same cursor parameter as the rate-limited one.
C4_RetrySameRequest ==
    /\ [][ (pc = "status" /\ response.status = 429) =>
             /\ page_cursor' = page_cursor
             /\ campaign_ids_and_tags' = campaign_ids_and_tags ]_vars
    /\ [](\A k \in 1..(Len(requests) - 1) :
             responses[k].status = 429 => requests[k + 1] = requests[k])

\* a request carrying a cursor was rate limited and issued again
C4_Witness ==
    \E k \in 1..(Len(requests) - 1) :
        /\ responses[k].status = 429
        /\ requests[k] = "c2"
        /\ requests[k + 1] = "c2"
        /\ campaign_ids_and_tags # <<>>

\* the seconds a Retry-After text of the catalogue stands for
SecondsOf(text) == CASE text = <<"3", "0">> -> 30

\* the delay the claim asks for after a 429 response
ClaimedDelay(r) ==
    IF r.retry_after = Absent THEN 60 ELSE SecondsOf(r.retry_after[1])

\* the 429 responses already handled (the last response is handled once the
\* run has left the status test)
Handled429 ==
    SelectSeq(IF pc = "status" THEN SubSeq(responses, 1, Len(responses) - 1)
                               ELSE responses,
              LAMBDA r : r.status = 429)

\* C5: each 429 is followed by exactly one delay before the next request, of
\* the Retry-After value when present and 60 otherwise; 429 then 200 without
\* a next link completes after exactly one delay.
C5_OneDelayPer429 ==
    /\ sleeps = [k \in 1..Len(Handled429) |-> ClaimedDelay(Handled429[k])]
    /\ ( /\ Len(responses) = 2
         /\ responses[1].status = 429
         /\ responses[2].status = 200
         /\ responses[2].body.next = Absent )
       => /\ pc \notin {"get", "failed"}
          /\ Len(sleeps) = 1
          /\ pc = "while" => ~has_next

C5_Witness ==
    /\ pc = "finished"
    /\ Len(responses) = 2
    /\ responses[1].status = 429
    /\ responses[1].retry_after # Absent
    /\ responses[2].status = 200
    /\ responses[2].body.next = Absent
    /\ sleeps = <<30>>
    /\ campaign_list[1] # <<>>

AllRateLimited == \A k \in 1..Len(responses) : responses[k].status = 429

\* C6: 429 responses alone never make the fetch fail or return, however many
\* there are, and after each of them the loop goes on to the next request.
C6_NoRetryCap ==
    /\ pc = "failed" => response.status \notin {200, 429}
    /\ Returned => response.status = 200
    /\ AllRateLimited => pc \in {"idle", "while", "get", "status"} /\ ~Returned
    /\ (pc = "while" /\ responses # <<>> /\ response.status = 429)
          => has_next /\ Len(campaign_ids_and_tags) < limit

\* three 429 in a row, and the fourth request is about to be issued
C6_Witness ==
    /\ pc = "get"
    /\ Len(responses) = 3
    /\ AllRateLimited

\* the tag references and the side-loaded entities as the response gives them
RefsOf(campaign) == IF campaign.tags = Absent THEN <<>> ELSE campaign.tags[1]
IncludedOf(body) == IF body.included = Absent THEN <<>> ELSE body.included[1]

SideLoaded(body, tag_id) ==
    \E e \in 1..Len(IncludedOf(body)) :
        /\ IncludedOf(body)[e].type = "tag"
        /\ IncludedOf(body)[e].id = tag_id

RECURSIVE TagCount(_, _)
\* the number of tags of the first n campaigns of a list
TagCount(list, n) ==
    IF n = 0 THEN 0 ELSE TagCount(list, n - 1) + Len(list[n].tags)

Flattened == pc \in {"load", "finished"}

\* C7: a record has one tag entry per tag reference of its campaign, in the
\* same order; a reference no "tag" entity of the response matches gives an
\* entry with that id and the name None, and the flattened row keeps it.
C7_TagEntryPerReference ==
    /\ \A k \in 1..Len(campaign_ids_and_tags) :
          LET refs == RefsOf(SourceCampaign(k))
              tags == campaign_ids_and_tags[k].tags
          IN  /\ Len(tags) = Len(refs)
              /\ \A j \in 1..Len(refs) :
                    /\ tags[j].tag_id = refs[j]
                    /\ ~SideLoaded(SourceBody(k), refs[j])
                          => tags[j].tag_name = None
    /\ Flattened =>
          \A k \in 1..Len(campaign_list[1]) :
             \A j \in 1..Len(campaign_list[1][k].tags) :
                LET tag == campaign_list[1][k].tags[j]
                    at  == TagCount(campaign_list[1], k - 1) + j
                IN  tag.tag_name = None =>
                      /\ at <= Len(all_campaign_tags)
                      /\ all_campaign_tags[at].tag_id = tag.tag_id
                      /\ all_campaign_tags[at].tag_name = None

\* a campaign whose first tag is resolved and whose second is not side-loaded
\* has been fetched, flattened and loaded
C7_Witness ==
    /\ pc = "finished"
    /\ \E r \in 1..Len(table) :
          /\ r > 1
          /\ table[r] = [campaign_id |-> "A", campaign_name |-> "Alpha",
                         tag_id |-> "t2", tag_name |-> None]
          /\ table[r - 1] = [campaign_id |-> "A", campaign_name |-> "Alpha",
                             tag_id |-> "t1", tag_name |-> "VIP"]

\* the rows, and the tags, of the campaigns with a given id
RowsFor(id) ==
    Cardinality({ r \in 1..Len(all_campaign_tags) :
                    all_campaign_tags[r].campaign_id = id })

RECURSIVE TagsFor(_, _, _)
TagsFor(list, n, id) ==
    IF n = 0 THEN 0
    ELSE TagsFor(list, n - 1, id)
         + (IF list[n].campaign_id = id THEN Len(list[n].tags) ELSE 0)

CampaignIds == {"A", "B", "C"}

\* C8: the number of flattened rows is the sum of the lengths of the
\* campaigns' tag lists, campaign by campaign; a campaign without tags
\* contributes no row.
C8_RowCount ==
    Flattened =>
       LET list == campaign_list[1] IN
       /\ Len(all_campaign_tags) = TagCount(list, Len(list))
       /\ \A id \in CampaignIds : RowsFor(id) = TagsFor(list, Len(list), id)
       /\ \A r \in 1..Len(all_campaign_tags) :
             all_campaign_tags[r].campaign_id \in CampaignIds

\* campaign A with two tags and campaign B with none: two rows, both for A
C8_Witness ==
    /\ pc = "load"
    /\ Len(campaign_list[1]) = 2
    /\ campaign_list[1][1].campaign_id = "A"
    /\ Len(campaign_list[1][1].tags) = 2
    /\ campaign_list[1][2].campaign_id = "B"
    /\ campaign_list[1][2].tags = <<>>
    /\ Len(all_campaign_tags) = 2
    /\ all_campaign_tags[1].campaign_id = "A"
    /\ all_campaign_tags[2].campaign_id = "A"

\* C9: the rows are those of the campaigns in input order and, within a
\* campaign, in tag order, every field copied as it is.
C9_RowsInOrder ==
    Flattened =>
       LET list == campaign_list[1] IN
       /\ Len(all_campaign_tags) = TagCount(list, Len(list))
       /\ \A k \in 1..Len(list) :
             \A j \in 1..Len(list[k].tags) :
                all_campaign_tags[TagCount(list, k - 1) + j] =
                   [campaign_id   |-> list[k].campaign_id,
                    campaign_name |-> list[k].campaign_name,
                    tag_id        |-> list[k].tags[j].tag_id,
                    tag_name      |-> list[k].tags[j].tag_name]

\* two campaigns with tags, three rows
C9_Witness ==
    /\ pc = "load"
    /\ Len(campaign_list[1]) = 2
    /\ campaign_list[1][1].campaign_id = "C"
    /\ campaign_list[1][2].campaign_id = "A"
    /\ Len(all_campaign_tags) = 3
    /\ all_campaign_tags[3].tag_id = "t2"

\* C10: after a completed run the table holds the rows flattened in that run,
\* whatever it held before; a second completed run against an unchanged
\* upstream leaves the table the first one left.
C10_FullReplaceIdempotent ==
    pc = "finished" =>
       /\ table = all_campaign_tags
       /\ Len(table) = TagCount(campaign_list[1], Len(campaign_list[1]))
       /\ (stable /\ prev # Absent) => table = prev[1]

\* a second run has completed against the upstream of the first, which had
\* loaded rows; this one was rate limited on the way
C10_Witness ==
    /\ pc = "finished"
    /\ stable
    /\ prev # Absent
    /\ table # <<>>
    /\ sleeps # <<>>

\* the places of the non-blank page[cursor] values in a next link's query
CursorPlaces(query) ==
    { i \in 1..Len(query) : query[i][1] = "page[cursor]" /\ query[i][2] # "" }

\* the cursor a body's next link gives, None when it gives none
LinkCursor(body) ==
    IF body.next = Absent \/ CursorPlaces(body.next[1]) = {} THEN None
    ELSE LET q == body.next[1]
             i == CHOOSE i \in CursorPlaces(q) : \A m \in CursorPlaces(q) : i <= m
         IN  q[i][2]

\* the place in the log of the latest 200 response among the first n, 0 if none
RECURSIVE LatestOk(_)
LatestOk(n) ==
    IF n = 0 THEN 0
    ELSE IF responses[n].status = 200 THEN n ELSE LatestOk(n - 1)

\* the cursor the latest 200 response among the first n gave, None if none
CursorAfter(n) ==
    IF LatestOk(n) = 0 THEN None ELSE LinkCursor(responses[LatestOk(n)].body)

\* C11: the fetch returns only when the limit is reached or the latest
\* successful response gave no cursor; after a successful response that gave
\* a cursor, with the accumulator below limit, the loop goes on to a request.
C11_ReturnOnlyAtEnd ==
    /\ [](Returned =>
             \/ Len(campaign_list[1]) = limit
             \/ (LatestOk(Len(responses)) > 0 /\ CursorAfter(Len(responses)) = None))
    /\ [][ (pc = "while" /\ pc' = "flatten") =>
             \/ Len(campaign_ids_and_tags) >= limit
             \/ CursorAfter(Len(responses)) = None ]_vars
    /\ [][ ( /\ pc = "while"
             /\ LatestOk(Len(responses)) > 0
             /\ CursorAfter(Len(responses)) # None
             /\ Len(campaign_ids_and_tags) < limit ) => pc' = "get" ]_vars

\* a page left the accumulator below limit and gave a cursor, and the next
\* request was issued; the run then ended on a page without cursor
C11_Witness ==
    /\ pc = "flatten"
    /\ Len(responses) = 2
    /\ responses[1].status = 200
    /\ LinkCursor(responses[1].body) = "c2"
    /\ responses[2].status = 200
    /\ LinkCursor(responses[2].body) = None
    /\ Len(campaign_list[1]) = 1
    /\ limit = 2

RateLimited == pc = "status" /\ response.status = 429
FetchEnded  == pc \in {"failed", "flatten", "load", "finished"}

\* a successful page without campaigns whose next link gives a cursor
EmptyWithCursor ==
    /\ pc = "paginate"
    /\ GetOr(response.body.data, <<>>) = <<>>
    /\ LinkCursor(response.body) # None

\* C12 as stated: when 429 is answered only finitely often, the fetch
\* eventually returns or fails, whatever successful pages are served.
C12_EndsUnlessRateLimited == (<>[]~RateLimited) => <>FetchEnded

\* C12, amended: when 429 is answered only finitely often and only finitely
\* many successful pages have no campaign and give a cursor, the fetch
\* eventually returns or fails.
C12_EndsUnlessRateLimitedOrEmptyPages ==
    ((<>[]~RateLimited) /\ (<>[]~EmptyWithCursor)) => <>FetchEnded

\* the fetch has returned a full list after following a cursor
C12_Witness ==
    /\ pc = "flatten"
    /\ requests = <<"c2">>
    /\ Len(campaign_list[1]) = limit
    /\ limit = 2

\* C13: the first request carries no cursor; a later request carries the
\* cursor of the next link of the latest 200 response before it; a 200
\* response whose next link is missing or gives no non-empty cursor is
\* followed by no request.
C13_CursorFollowsNextLink ==
    /\ requests # <<>> => requests[1] = None
    /\ \A k \in 2..Len(requests) : requests[k] = CursorAfter(k - 1)
    /\ \A k \in 1..Len(responses) :
          (responses[k].status = 200 /\ LinkCursor(responses[k].body) = None)
             => /\ Len(requests) = k
                /\ pc \notin {"get", "failed"}
                /\ pc = "while" => ~has_next

\* three requests: no cursor, then c2 taken from a link with several cursor
\* parameters, then c1; the last page's link has a blank cursor only
C13_Witness ==
    /\ pc = "flatten"
    /\ requests = <<None, "c2", "c2", "c1">>
    /\ responses[1].body.next = LinkC2
    /\ responses[2].status = 429
    /\ responses[3].body.next = LinkC1
    /\ responses[4].body.next = LinkBlank

\* response k is a 200 without primary resources: no data key, or no campaign
NoResources(k) ==
    /\ responses[k].status = 200
    /\ \/ responses[k].body.data = Absent
       \/ responses[k].body.data[1] = <<>>

\* response k has been dealt with: the run is past its pagination step
Handled(k) == k < Len(responses) \/ pc \notin {"status", "for", "paginate"}

\* C14: a 200 response without primary resources is no error and adds
\* nothing to the accumulator; the fetch goes on with the cursor of its next
\* link when there is one, and otherwise returns what it has accumulated.
C14_EmptyPageContinues ==
    \A k \in 1..Len(responses) :
       NoResources(k) =>
          /\ \A m \in 1..Len(origin) : origin[m].r # k
          /\ k = Len(responses) => pc # "failed"
          /\ (Handled(k) /\ LinkCursor(responses[k].body) # None) =>
                /\ k = Len(responses) =>
                      /\ pc \in {"while", "get"}
                      /\ has_next
                      /\ page_cursor = LinkCursor(responses[k].body)
                      /\ ~Returned
                /\ k < Len(requests) =>
                      requests[k + 1] = LinkCursor(responses[k].body)
          /\ (Handled(k) /\ LinkCursor(responses[k].body) = None) =>
                /\ k = Len(requests)
                /\ pc \in {"while", "flatten", "load", "finished"}
                /\ Returned =>
                      /\ campaign_list[1] = campaign_ids_and_tags
                      /\ Len(campaign_list[1]) = Len(origin)

\* a body without data key whose link gives c1, then a body with an empty
\* data list and no link: the run ends normally with no record at all
C14_Witness ==
    /\ pc = "finished"
    /\ requests = <<None, "c1">>
    /\ responses[1].body.data = Absent
    /\ responses[1].body.next = LinkC1
    /\ responses[2].body.data = Some(<<>>)
    /\ responses[2].body.next = Absent
    /\ responses[2].status = 200
    /\ campaign_list = Some(<<>>)

\* the places, in a body's included collection, of the "tag" entities with an id
TagPlaces(body, tag_id) ==
    { e \in 1..Len(IncludedOf(body)) :
         IncludedOf(body)[e].type = "tag" /\ IncludedOf(body)[e].id = tag_id }

\* C15: the name recorded for a tag reference is that of the first entity of
\* type "tag" with the referenced id in the included collection of the same
\* response; no other entity, of this or of another response, gives a name.
C15_NameFromSameResponse ==
    \A k \in 1..Len(campaign_ids_and_tags) :
       LET body == SourceBody(k)
           refs == RefsOf(SourceCampaign(k))
           tags == campaign_ids_and_tags[k].tags
       IN  \A j \in 1..Len(tags) :
              LET places == TagPlaces(body, refs[j]) IN
              /\ places # {} =>
                    LET first == CHOOSE e \in places : \A m \in places : e <= m
                    IN  tags[j].tag_name = IncludedOf(body)[first].name
              /\ tags[j].tag_name # None => places # {}

\* t1 resolved to the first of two "tag" entities, past an entity of another
\* type with the same id
C15_Witness ==
    /\ campaign_ids_and_tags # <<>>
    /\ SourceBody(Len(campaign_ids_and_tags)).included = IncOdd
    /\ Last(campaign_ids_and_tags).campaign_id = "A"
    /\ Last(campaign_ids_and_tags).tags[1] = [tag_id |-> "t1", tag_name |-> "VIP"]

RECURSIVE Received(_)
\* the campaigns of the 200 responses among the first n, in request order and
\* then in page order
Received(n) ==
    IF n = 0 THEN <<>>
    ELSE Received(n - 1)
         \o (IF responses[n].status = 200 /\ responses[n].body.data # Absent
             THEN responses[n].body.data[1] ELSE <<>>)

Min(a, b) == IF a <= b THEN a ELSE b

\* C16: the returned list is the first min(limit, N) campaigns received in
\* the 200 responses, N being their number; retried requests change nothing.
C16_ReturnsPrefixOfReceived ==
    Returned =>
       LET all  == Received(Len(responses))
           list == campaign_list[1]
       IN  /\ Len(list) = Min(limit, Len(all))
           /\ \A m \in 1..Len(list) :
                 /\ list[m].campaign_id = all[m].id
                 /\ list[m].campaign_name = all[m].name
                 /\ SourceCampaign(m) = all[m]

\* two pages with a 429 between them; the second page is cut by the limit
C16_Witness ==
    /\ pc = "flatten"
    /\ limit = 2
    /\ Len(responses) = 3
    /\ responses[1].status = 200
    /\ responses[2].status = 429
    /\ responses[3].status = 200
    /\ Len(Received(3)) = 3
    /\ Len(campaign_list[1]) = 2
    /\ campaign_list[1][1].campaign_id = "C"
    /\ campaign_list[1][2].campaign_id = "B"

\* C17: a run whose fetch fails hands nothing to the warehouse: the table is
\* the one the run found, also when pages had been fetched before the failure.
C17_FailedRunWritesNothing ==
    /\ (responses # <<>> /\ response.status \notin {200, 429}) =>
          /\ pc \in {"status", "failed"}
          /\ loaded = Absent
          /\ table = table0
    /\ pc = "failed" => loaded = Absent /\ table = table0

\* a run fails after accumulating a page, on a table an earlier run had loaded
C17_Witness ==
    /\ pc = "failed"
    /\ campaign_ids_and_tags # <<>>
    /\ table # <<>>
    /\ table # <<StaleRow>>

\* C18: a run whose fetch returns no campaign, or only campaigns without
\* tags, still loads: the batch has the four columns and no row, and the
\* table ends empty whatever it held.
C18_EmptyRunEmptiesTable ==
    (pc = "finished" /\ \A k \in 1..Len(campaign_list[1]) :
                            campaign_list[1][k].tags = <<>>)
       => /\ loaded = Some([columns |-> <<"campaign_id", "campaign_name",
                                          "tag_id", "tag_name">>,
                            rows    |-> <<>>])
          /\ table = <<>>

\* a run that fetched only a campaign without tags has emptied a table that
\* held rows
C18_Witness ==
    /\ pc = "finished"
    /\ campaign_list[1] # <<>>
    /\ all_campaign_tags = <<>>
    /\ table0 # <<>>
    /\ table = <<>>

====
